---------------------------- MODULE Spec2Model ----------------------------
(***************************************************************************)
(* Model of the response classification and extraction pipeline of         *)
(* main.go: parseURL's content-type dispatch, parseJSONResponse,           *)
(* displayContent, parseGenericResponse, extractAndShowInfo,               *)
(* cleanLinkText and makeAbsoluteURL.                                      *)
(*                                                                         *)
(* A Go string is modelled as a sequence of one-character strings, one     *)
(* element per byte, so len(s) is Len(s) and s[a:b] is SubSeq(s, a+1, b).  *)
(* Indices returned by the strings package keep Go's 0-based convention.   *)
(* What the program prints is recorded in variables, one per kind of       *)
(* output line.                                                            *)
(***************************************************************************)
EXTENDS Integers, Sequences, FiniteSets, TLC

VARIABLES
    pc,           \* position inside the modelled call
    contentType,  \* parseURL: resp.Header.Get("Content-Type")
    called,       \* the extractors / display functions invoked, in call order
    href,         \* makeAbsoluteURL: first argument
    baseURL,      \* makeAbsoluteURL / extractAndShowInfo: the page URL
    fullURL,      \* makeAbsoluteURL: returned value
    text,         \* cleanLinkText: argument
    cleaned,      \* cleanLinkText: returned value
    body,         \* response body handed to an extractor
    preview,      \* parseGenericResponse: what was printed
    printed,      \* displayContent: the numbered lines printed
    doc,          \* extractAndShowInfo: the parsed document, in document order
    i,            \* index of the next element handed to an Each callback
    description,  \* extractAndShowInfo: local variable description
    linkCount,    \* extractAndShowInfo: local variable linkCount
    links,        \* extractAndShowInfo: the link entries printed
    stats         \* extractAndShowInfo: title, description line and statistics printed

vars == <<pc, contentType, called, href, baseURL, fullURL, text, cleaned, body,
          preview, printed, doc, i, description, linkCount, links, stats>>

classifyVars == <<contentType>>
urlVars      == <<href, fullURL>>
cleanVars    == <<text, cleaned>>
genericVars  == <<preview>>
jsonVars     == <<printed>>
htmlVars     == <<doc, i, description, linkCount, links, stats>>

None == "none"

(***************************************************************************)
(* Bounds of the model.                                                    *)
(***************************************************************************)
MaxFragments == 3
MaxTextLen == 5
MaxBodyLen == 1002
MaxContentParts == 4
MaxAnchors == 11
MaxUniform == 20
MaxShort == 2
MaxMetas == 3

(***************************************************************************)
(* The strings package.                                                    *)
(***************************************************************************)
Min(a, b) == IF a <= b THEN a ELSE b

\* s[lo:hi]
Slice(s, lo, hi) == SubSeq(s, lo + 1, hi)

\* s[lo:]
SliceFrom(s, lo) == SubSeq(s, lo + 1, Len(s))

HasPrefix(s, p) == Len(s) >= Len(p) /\ SubSeq(s, 1, Len(p)) = p

HasSuffix(s, p) == Len(s) >= Len(p) /\ SubSeq(s, Len(s) - Len(p) + 1, Len(s)) = p

\* The 0-based offsets at which sub occurs in s.
Occurrences(s, sub) ==
    {k \in 0..(Len(s) - Len(sub)) : Slice(s, k, k + Len(sub)) = sub}

Contains(s, sub) == Occurrences(s, sub) /= {}

\* strings.Index: the first occurrence, or -1.
Index(s, sub) ==
    IF Occurrences(s, sub) = {} THEN -1
    ELSE CHOOSE k \in Occurrences(s, sub) : \A m \in Occurrences(s, sub) : k <= m

\* strings.LastIndex: the last occurrence, or -1.
LastIndex(s, sub) ==
    IF Occurrences(s, sub) = {} THEN -1
    ELSE CHOOSE k \in Occurrences(s, sub) : \A m \in Occurrences(s, sub) : k >= m

\* strings.ReplaceAll for a non-empty old: the matches are taken from the left
\* and do not overlap.
RECURSIVE ReplaceAll(_, _, _)
ReplaceAll(s, old, new) ==
    IF Index(s, old) = -1 THEN s
    ELSE Slice(s, 0, Index(s, old)) \o new
         \o ReplaceAll(SliceFrom(s, Index(s, old) + Len(old)), old, new)

\* strings.Split for a non-empty sep: always at least one piece.
RECURSIVE Split(_, _)
Split(s, sep) ==
    IF Index(s, sep) = -1 THEN <<s>>
    ELSE <<Slice(s, 0, Index(s, sep))>>
         \o Split(SliceFrom(s, Index(s, sep) + Len(sep)), sep)

\* strings.SplitN(s, sep, 2): at most two pieces, cut at the first sep.
SplitN2(s, sep) ==
    IF Index(s, sep) = -1 THEN <<s>>
    ELSE <<Slice(s, 0, Index(s, sep)), SliceFrom(s, Index(s, sep) + Len(sep))>>

\* unicode.IsSpace on the one-byte characters of the modelled texts (the
\* vertical tab and the two-byte spaces U+0085 and U+00A0 do not occur in them).
WhiteSpace == {" ", "\t", "\n", "\r", "\f"}

\* strings.TrimSpace: from the first to the last character that is no white space.
TrimSpace(s) ==
    IF \A k \in 1..Len(s) : s[k] \in WhiteSpace THEN <<>>
    ELSE SubSeq(s,
                CHOOSE a \in 1..Len(s) :
                    s[a] \notin WhiteSpace /\ \A k \in 1..(a - 1) : s[k] \in WhiteSpace,
                CHOOSE z \in 1..Len(s) :
                    s[z] \notin WhiteSpace /\ \A k \in (z + 1)..Len(s) : s[k] \in WhiteSpace)

\* All concatenations of at most n elements of the set of strings S.
RECURSIVE Concats(_, _)
Concats(S, n) ==
    IF n = 0 THEN {<<>>}
    ELSE Concats(S, n - 1) \cup {a \o b : a \in Concats(S, n - 1), b \in S}

(***************************************************************************)
(* parseURL: the content-type dispatch.                                    *)
(***************************************************************************)
ApplicationJSON ==
    <<"a", "p", "p", "l", "i", "c", "a", "t", "i", "o", "n", "/", "j", "s", "o", "n">>
TextHTML == <<"t", "e", "x", "t", "/", "h", "t", "m", "l">>

\* Pieces of which the modelled Content-Type headers are made.
ContentTypeFragments ==
    { ApplicationJSON,
      TextHTML,
      <<"t", "e", "x", "t", "/", "p", "l", "a", "i", "n">>,
      <<";", " ", "c", "h", "a", "r", "s", "e", "t", "=", "u", "t", "f", "-", "8">>,
      <<"a", "p", "p", "l", "i", "c", "a", "t", "i", "o", "n", "/", "j", "s", "o">>,
      <<"T", "e", "x", "t", "/", "H", "T", "M", "L">>,
      <<",", " ">> }

ContentTypes == Concats(ContentTypeFragments, MaxFragments)

IsJSONContent(ct) == Contains(ct, ApplicationJSON)

IsHTMLContent(ct) == Contains(ct, TextHTML)

\* Mutation: the two tests in the other order.
DispatchHTMLFirst(ct) ==
    IF IsHTMLContent(ct) THEN <<"parseHTMLResponse">>
    ELSE IF IsJSONContent(ct) THEN <<"parseJSONResponse">>
    ELSE <<"parseGenericResponse">>

\* The calls the if / else if / else chain of parseURL makes.
Dispatch(ct) ==
    IF IsJSONContent(ct) THEN <<"parseJSONResponse">>
    ELSE IF IsHTMLContent(ct) THEN <<"parseHTMLResponse">>
    ELSE <<"parseGenericResponse">>

ClassifyInit ==
    /\ pc = "call"
    /\ contentType \in ContentTypes
    /\ called = <<>>
    /\ href = None /\ baseURL = None /\ fullURL = None
    /\ text = None /\ cleaned = None
    /\ body = None /\ preview = None /\ printed = None
    /\ doc = None /\ i = 0 /\ description = None /\ linkCount = 0
    /\ links = None /\ stats = None

parseURL ==
    /\ pc = "call"
    /\ called' = called \o Dispatch(contentType)
    /\ pc' = "done"
    /\ UNCHANGED <<classifyVars, urlVars, baseURL, cleanVars, body, genericVars,
                   jsonVars, htmlVars>>

ClassifyNext == parseURL

SpecClassify == ClassifyInit /\ [][ClassifyNext]_vars

Extractors == {"parseJSONResponse", "parseHTMLResponse", "parseGenericResponse"}

\* C1: every content-type string leads to exactly one extractor call: the JSON
\* extractor when it contains "application/json", the HTML extractor when it
\* contains "text/html" and not "application/json", the generic extractor
\* otherwise (the empty string included).
C1_ExactlyOneBranch ==
    pc = "done" =>
        /\ Len(called) = 1
        /\ called[1] \in Extractors
        /\ (called[1] = "parseJSONResponse") <=> Contains(contentType, ApplicationJSON)
        /\ (called[1] = "parseHTMLResponse") <=>
               (Contains(contentType, TextHTML) /\ ~Contains(contentType, ApplicationJSON))
        /\ (called[1] = "parseGenericResponse") <=>
               (~Contains(contentType, TextHTML) /\ ~Contains(contentType, ApplicationJSON))
        /\ (contentType = <<>> => called = <<"parseGenericResponse">>)

\* A response declaring both types has been dispatched.
C1_Witness ==
    /\ pc = "done"
    /\ Contains(contentType, ApplicationJSON)
    /\ Contains(contentType, TextHTML)
    /\ called = <<"parseJSONResponse">>

(***************************************************************************)
(* makeAbsoluteURL.                                                        *)
(***************************************************************************)
HTTP  == <<"h", "t", "t", "p", ":", "/", "/">>
HTTPS == <<"h", "t", "t", "p", "s", ":", "/", "/">>
Slash == <<"/">>

\* The page URLs: validateURL returns only strings that start with "http://" or
\* "https://" and contain a ".", and a response exists only for a non-empty host.
Schemes == {HTTP, HTTPS}
Hosts == { <<"e", "x", "a", "m", "p", "l", "e", ".", "c", "o", "m">>, <<"a">> }
Paths ==
    { <<>>,
      <<"/">>,
      <<"/", "b", "l", "o", "g", "/", "p", "o", "s", "t", "1">>,
      <<"/", "b", "l", "o", "g", "/">>,
      <<"/", "b", ".", "c">> }
Queries ==
    { <<>>,
      <<"?", "q", "=", "1">>,
      <<"?", "u", "=", "a", "/", "b", ".", "c">> }

BaseURLs ==
    { b \in {s \o h \o p \o q : s \in Schemes, h \in Hosts, p \in Paths, q \in Queries} :
        Contains(b, <<".">>) }

\* The href attribute values.
Hrefs ==
    { <<>>,
      <<"/">>,
      <<"/", "a", "b", "o", "u", "t">>,
      <<"/", "/", "c", "d", "n", ".", "x", "/", "y">>,
      <<"i", "m", "a", "g", "e", "s", "/", "a", ".", "p", "n", "g">>,
      <<"a", ".", "p", "n", "g">>,
      <<"?", "p", "=", "2">>,
      <<".", ".", "/", "u", "p">>,
      <<"h", "t", "t", "p", ":", "/", "/", "x", ".", "y", "/", "z">>,
      <<"h", "t", "t", "p", "s", ":", "/", "/", "x", ".", "y">> }

\* Lines 481-493: the host part is what precedes the first "/" after the scheme.
RootRelative(scheme, rest, h) ==
    IF Len(SplitN2(rest, Slash)) > 1
    THEN scheme \o SplitN2(rest, Slash)[1] \o h
    ELSE scheme \o rest \o h

\* Mutation: the comparison admits the second slash of "https://".
PathSlashFrom7(lastSlash) == lastSlash >= 7

\* Line 502: the last slash belongs to a path.
PathSlash(lastSlash) == lastSlash >= 8

\* Lines 496-506.
Relative(h, b) ==
    IF HasSuffix(b, Slash) THEN b \o h
    ELSE IF PathSlash(LastIndex(b, Slash))
         THEN Slice(b, 0, LastIndex(b, Slash) + 1) \o h
         ELSE b \o Slash \o h

makeAbsoluteURL(h, b) ==
    IF HasPrefix(h, HTTP) \/ HasPrefix(h, HTTPS) THEN h
    ELSE IF HasPrefix(h, Slash) /\ HasPrefix(b, HTTPS)
         THEN RootRelative(HTTPS, SliceFrom(b, 8), h)
    ELSE IF HasPrefix(h, Slash) /\ HasPrefix(b, HTTP)
         THEN RootRelative(HTTP, SliceFrom(b, 7), h)
    ELSE Relative(h, b)

URLInit ==
    /\ pc = "call"
    /\ href \in Hrefs
    /\ baseURL \in BaseURLs
    /\ fullURL = None
    /\ contentType = None /\ called = <<>>
    /\ text = None /\ cleaned = None
    /\ body = None /\ preview = None /\ printed = None
    /\ doc = None /\ i = 0 /\ description = None /\ linkCount = 0
    /\ links = None /\ stats = None

ResolveLink ==
    /\ pc = "call"
    /\ fullURL' = makeAbsoluteURL(href, baseURL)
    /\ pc' = "done"
    /\ UNCHANGED <<classifyVars, called, href, baseURL, cleanVars, body, genericVars,
                   jsonVars, htmlVars>>

URLNext == ResolveLink

SpecURL == URLInit /\ [][URLNext]_vars

\* The scheme prefix of a page URL.
SchemeOf(b) == IF HasPrefix(b, HTTPS) THEN HTTPS ELSE HTTP

\* The authority of a page URL: what follows the scheme, up to the path, the
\* query or the fragment.
RECURSIVE UpToDelimiter(_)
UpToDelimiter(s) ==
    IF s = <<>> \/ Head(s) \in {"/", "?", "#"} THEN <<>>
    ELSE <<Head(s)>> \o UpToDelimiter(Tail(s))

AuthorityOf(b) == UpToDelimiter(SliceFrom(b, Len(SchemeOf(b))))

\* C2: a root-relative href resolves to scheme://host + href, where host is the
\* authority of the page URL with its path and its query dropped.
C2_RootRelative ==
    (pc = "done" /\ HasPrefix(href, Slash)) =>
        fullURL = SchemeOf(baseURL) \o AuthorityOf(baseURL) \o href

IsRelative(h) == ~HasPrefix(h, HTTP) /\ ~HasPrefix(h, HTTPS) /\ ~HasPrefix(h, Slash)

\* C3: a relative href is appended to a page URL that ends with "/"; otherwise it
\* replaces what follows the last "/" when that slash lies after the scheme
\* separator; otherwise (no path) it is appended after exactly one "/".
C3_RelativePath ==
    (pc = "done" /\ IsRelative(href)) =>
        IF HasSuffix(baseURL, Slash) THEN fullURL = baseURL \o href
        ELSE IF LastIndex(baseURL, Slash) >= Len(SchemeOf(baseURL))
        THEN fullURL = Slice(baseURL, 0, LastIndex(baseURL, Slash) + 1) \o href
        ELSE /\ fullURL = baseURL \o Slash \o href
             /\ HasPrefix(fullURL, SchemeOf(baseURL) \o AuthorityOf(baseURL))
             /\ ~Contains(SliceFrom(fullURL, Len(SchemeOf(baseURL))), <<"/", "/">>)

\* A relative href has been resolved against a page URL without a path, and
\* against one with a path.
C3_Witness ==
    /\ pc = "done"
    /\ href = <<"i", "m", "a", "g", "e", "s", "/", "a", ".", "p", "n", "g">>
    /\ baseURL = HTTPS \o <<"e", "x", "a", "m", "p", "l", "e", ".", "c", "o", "m">>
    /\ fullURL = baseURL \o Slash \o href

(***************************************************************************)
(* cleanLinkText.                                                          *)
(***************************************************************************)
Space == <<" ">>
TwoSpaces == <<" ", " ">>

\* All strings of at most n characters of the alphabet A.
RECURSIVE Strings(_, _)
Strings(A, n) ==
    IF n = 0 THEN {<<>>}
    ELSE Strings(A, n - 1) \cup {Append(s, c) : s \in Strings(A, n - 1), c \in A}

TextAlphabet == {" ", "\n", "\t", "\r", "a"}

Texts == Strings(TextAlphabet, MaxTextLen)

\* Mutation: one pass of the replacement instead of the loop.
CollapseOnce(t) == ReplaceAll(t, TwoSpaces, Space)

\* Lines 466-468: for strings.Contains(text, "  ") { text = ReplaceAll(...) }
RECURSIVE CollapseSpaces(_)
CollapseSpaces(t) ==
    IF Contains(t, TwoSpaces)
    THEN CollapseSpaces(ReplaceAll(t, TwoSpaces, Space))
    ELSE t

cleanLinkText(t) ==
    CollapseSpaces(
        ReplaceAll(ReplaceAll(TrimSpace(t), <<"\n">>, Space), <<"\t">>, Space))

CleanInit ==
    /\ pc = "call"
    /\ text \in Texts
    /\ cleaned = None
    /\ contentType = None /\ called = <<>>
    /\ href = None /\ baseURL = None /\ fullURL = None
    /\ body = None /\ preview = None /\ printed = None
    /\ doc = None /\ i = 0 /\ description = None /\ linkCount = 0
    /\ links = None /\ stats = None

CleanText ==
    /\ pc = "call"
    /\ cleaned' = cleanLinkText(text)
    /\ pc' = "done"
    /\ UNCHANGED <<classifyVars, called, urlVars, baseURL, text, body, genericVars,
                   jsonVars, htmlVars>>

CleanNext == CleanText

SpecClean == CleanInit /\ [][CleanNext]_vars

\* C8: cleanLinkText is idempotent, and its result has no leading or trailing
\* whitespace, no newline or tab, and no two consecutive spaces.
C8_CleanIdempotent ==
    pc = "done" =>
        /\ cleanLinkText(cleaned) = cleaned
        /\ (cleaned /= <<>> =>
               cleaned[1] \notin WhiteSpace /\ cleaned[Len(cleaned)] \notin WhiteSpace)
        /\ \A k \in 1..Len(cleaned) : cleaned[k] \notin {"\n", "\t"}
        /\ \A k \in 1..(Len(cleaned) - 1) : ~(cleaned[k] = " " /\ cleaned[k + 1] = " ")

\* A run of three whitespace characters inside the text has been collapsed.
C8_Witness ==
    /\ pc = "done"
    /\ text = <<"a", " ", "\n", " ", "a">>
    /\ cleaned = <<"a", " ", "a">>

(***************************************************************************)
(* parseGenericResponse.                                                   *)
(***************************************************************************)
\* The body of n bytes; neighbouring bytes differ, so a prefix is told from
\* any other part of it.
ByteAt(k) == IF k % 3 = 0 THEN "x" ELSE IF k % 3 = 1 THEN "y" ELSE "z"

RawBody(n) == [k \in 1..n |-> ByteAt(k)]

RawBodies == {RawBody(n) : n \in 0..MaxBodyLen}

\* Mutation: the comparison also truncates a body of exactly 1000.
TooLongFrom1000(contentLength) == contentLength >= 1000

\* Line 366.
TooLong(contentLength) == contentLength > 1000

parseGenericResponse(b) ==
    IF TooLong(Len(b))
    THEN [reported |-> Len(b), shown |-> Slice(b, 0, 1000), marker |-> TRUE]
    ELSE [reported |-> -1, shown |-> b, marker |-> FALSE]

GenericInit ==
    /\ pc = "call"
    /\ body \in RawBodies
    /\ preview = None
    /\ contentType = None /\ called = <<>>
    /\ href = None /\ baseURL = None /\ fullURL = None
    /\ text = None /\ cleaned = None /\ printed = None
    /\ doc = None /\ i = 0 /\ description = None /\ linkCount = 0
    /\ links = None /\ stats = None

ShowGeneric ==
    /\ pc = "call"
    /\ preview' = parseGenericResponse(body)
    /\ pc' = "done"
    /\ UNCHANGED <<classifyVars, called, urlVars, baseURL, cleanVars, body,
                   jsonVars, htmlVars>>

GenericNext == ShowGeneric

SpecGeneric == GenericInit /\ [][GenericNext]_vars

\* C6: a body of at most 1000 is shown in full without the truncation marker; a
\* longer one is cut to its first 1000 with the marker and its true length
\* reported.
C6_GenericPreview ==
    pc = "done" =>
        IF Len(body) <= 1000
        THEN preview.shown = body /\ ~preview.marker
        ELSE /\ Len(preview.shown) = 1000
             /\ \A k \in 1..1000 : preview.shown[k] = body[k]
             /\ preview.marker
             /\ preview.reported = Len(body)

\* A body of 1001 has been cut.
C6_Witness ==
    /\ pc = "done"
    /\ Len(body) = 1001
    /\ preview.marker
    /\ Len(preview.shown) = 1000

(***************************************************************************)
(* parseJSONResponse, displayPageResponse and displayContent.              *)
(***************************************************************************)
NewLine == <<"\n">>

\* Pieces of which the modelled content fields are made.
ContentFragments ==
    { <<"a">>, NewLine, Space, <<"*", "*">>, <<"#">>, <<"&", "n", "b", "s", "p", ";">> }

Contents == Concats(ContentFragments, MaxContentParts)

\* The "id" member of a JSON object: missing, null, a number, or a value that
\* is not an integer number.
IdMembers ==
    { [type |-> "absent", value |-> 0],
      [type |-> "null", value |-> 0],
      [type |-> "mismatch", value |-> 0],
      [type |-> "number", value |-> 0],
      [type |-> "number", value |-> 42],
      [type |-> "number", value |-> -7] }

\* A JSON body, as far as json.Unmarshal into a PageResponse tells bodies
\* apart: text that is not JSON, the literal null, a top-level array, or an
\* object with its id member, whether its other members have the declared
\* types, and its content member.
JSONBodies ==
    { [kind |-> k, id |-> [type |-> "absent", value |-> 0], membersOK |-> TRUE,
       content |-> <<>>] : k \in {"invalid", "null", "array"} }
    \cup
    { [kind |-> "object", id |-> m, membersOK |-> ok, content |-> c] :
        m \in IdMembers, ok \in BOOLEAN, c \in Contents }

\* json.Unmarshal(body, &page): the error returned and the fields left in page.
\* A syntax error is found before anything is stored; a member of the wrong
\* type is reported after the other members have been stored.
Unmarshal(b) ==
    [ err  |-> \/ b.kind \in {"invalid", "array"}
               \/ b.kind = "object" /\ (b.id.type = "mismatch" \/ ~b.membersOK),
      page |-> [ ID      |-> IF b.kind = "object" /\ b.id.type = "number"
                             THEN b.id.value ELSE 0,
                 Content |-> IF b.kind = "object" THEN b.content ELSE <<>> ] ]

\* Lines 294-296.
Cleanup(content) ==
    ReplaceAll(
        ReplaceAll(ReplaceAll(content, <<"*", "*">>, <<>>), <<"#">>, <<>>),
        <<"&", "n", "b", "s", "p", ";">>, Space)

\* Mutation: the number counts the lines printed so far.
LineNumberSequential(idx, printedSoFar) == printedSoFar + 1

\* Line 302: the number printed for the line at index idx of lines.
LineNumber(idx, printedSoFar) == idx + 1

\* Lines 299-304: the range loop over lines, from index idx on.
RECURSIVE PrintLines(_, _, _)
PrintLines(lines, idx, out) ==
    IF idx >= Len(lines) THEN out
    ELSE IF TrimSpace(lines[idx + 1]) /= <<>>
         THEN PrintLines(lines, idx + 1,
                  Append(out, [num  |-> LineNumber(idx, Len(out)),
                               line |-> TrimSpace(lines[idx + 1])]))
         ELSE PrintLines(lines, idx + 1, out)

displayContent(content) == PrintLines(Split(Cleanup(content), NewLine), 0, <<>>)

\* Lines 285-289.
displayPageResponse(page) ==
    IF page.Content /= <<>> THEN displayContent(page.Content) ELSE <<>>

\* Mutation: the zero id is not told from a real one.
IsPageResponseAnyID(r) == ~r.err

\* Line 269.
IsPageResponse(r) == ~r.err /\ r.page.ID /= 0

JSONInit ==
    /\ pc = "call"
    /\ body \in JSONBodies
    /\ called = <<>>
    /\ printed = <<>>
    /\ contentType = None
    /\ href = None /\ baseURL = None /\ fullURL = None
    /\ text = None /\ cleaned = None /\ preview = None
    /\ doc = None /\ i = 0 /\ description = None /\ linkCount = 0
    /\ links = None /\ stats = None

parseJSONResponse ==
    /\ pc = "call"
    /\ IF IsPageResponse(Unmarshal(body))
       THEN /\ called' = Append(called, "displayPageResponse")
            /\ printed' = displayPageResponse(Unmarshal(body).page)
       ELSE /\ called' = Append(called, "displayGenericJSON")
            /\ printed' = printed
    /\ pc' = "done"
    /\ UNCHANGED <<classifyVars, urlVars, baseURL, cleanVars, body, genericVars,
                   htmlVars>>

JSONNext == parseJSONResponse

SpecJSON == JSONInit /\ [][JSONNext]_vars

\* The body decodes against the known shape without error.
DecodeSucceeds(b) ==
    \/ b.kind = "null"
    \/ b.kind = "object" /\ b.id.type /= "mismatch" /\ b.membersOK

\* The id the decode leaves: that of the body, zero when it has none.
DecodedID(b) == IF b.kind = "object" /\ b.id.type = "number" THEN b.id.value ELSE 0

\* C5: the body is rendered as a StructuredPage exactly when it decodes and its
\* id is nonzero; every other body goes to the generic JSON view; never both.
C5_ZeroIDSentinel ==
    pc = "done" =>
        /\ Len(called) = 1
        /\ called[1] \in {"displayPageResponse", "displayGenericJSON"}
        /\ (called[1] = "displayPageResponse") <=>
               (DecodeSucceeds(body) /\ DecodedID(body) /= 0)

\* A body that decodes with id 0 has gone to the generic view.
C5_Witness ==
    /\ pc = "done"
    /\ body.kind = "object" /\ body.membersOK
    /\ body.id = [type |-> "number", value |-> 0]
    /\ called = <<"displayGenericJSON">>

\* C9 as stated: the k-th non-blank line is printed with the number k.
C9_SequentialNumbers ==
    (pc = "done" /\ called = <<"displayPageResponse">>) =>
        \A k \in 1..Len(printed) : printed[k].num = k

\* The lines of a content field after the cleanup.
LinesOf(b) == Split(Cleanup(b.content), NewLine)

\* C9 as amended: a printed line carries its position among all the lines of
\* the content, the blank ones included; the non-blank lines are printed in
\* order and each of them once.
C9_LinePositions ==
    (pc = "done" /\ called = <<"displayPageResponse">>) =>
        /\ Len(printed) =
               Cardinality({j \in 1..Len(LinesOf(body)) : TrimSpace(LinesOf(body)[j]) /= <<>>})
        /\ \A k \in 1..Len(printed) :
               /\ printed[k].num \in 1..Len(LinesOf(body))
               /\ printed[k].line = TrimSpace(LinesOf(body)[printed[k].num])
               /\ printed[k].line /= <<>>
               /\ (k > 1 => printed[k - 1].num < printed[k].num)

\* Two lines with a blank one between them have been printed.
C9_Witness ==
    /\ pc = "done"
    /\ called = <<"displayPageResponse">>
    /\ body.content = <<"a", "\n", "\n", "a">>
    /\ Len(printed) = 2
    /\ printed[2].num = 3

(***************************************************************************)
(* extractAndShowInfo.                                                     *)
(*                                                                         *)
(* A document is the sequence of its elements in document order; Find      *)
(* keeps the elements a selector matches, in that order.                   *)
(***************************************************************************)
Element(tag, name, hasContent, content, hasHref, h, t) ==
    [tag |-> tag, name |-> name, hasContent |-> hasContent, content |-> content,
     hasHref |-> hasHref, href |-> h, text |-> t]

Anchor(hasHref, h, t) == Element("a", <<>>, FALSE, <<>>, hasHref, h, t)
Meta(name, hasContent, content) == Element("meta", name, hasContent, content, FALSE, <<>>, <<>>)
Plain(tag, t) == Element(tag, <<>>, FALSE, <<>>, FALSE, <<>>, t)

\* A character that tells the element at position j from the others.
Letters == <<"a", "b", "c", "d", "e", "f", "g", "h", "i", "j", "k", "l", "m",
             "n", "o", "p", "q", "r", "s", "t", "u", "v", "w", "x", "y", "z">>
Mark(j) == Letters[((j - 1) % 26) + 1]

Repeat(c, n) == [k \in 1..n |-> c]

DescriptionName == <<"d", "e", "s", "c", "r", "i", "p", "t", "i", "o", "n">>
HashPrefix == <<"#">>
JavascriptPrefix == <<"j", "a", "v", "a", "s", "c", "r", "i", "p", "t", ":">>
MailtoPrefix == <<"m", "a", "i", "l", "t", "o", ":">>
\* The two placeholders (line 419, "[no text]", and line 381, "(not found)");
\* each is a single symbol that no text of a document contains.
Placeholder == <<"[no text]">>
TitlePlaceholder == <<"(not found)">>
Ellipsis == <<".", ".", ".">>

\* The kinds of element the modelled documents are made of.
ListedKinds == <<"link", "relative", "untitled", "padded", "wide", "inner">>
SkippedKinds == <<"javascript", "nohref", "longtext", "hash", "mailto", "p">>
OtherKinds == {"h1", "h2", "img", "title"}
MetaKinds == {"desc", "descEmpty", "descBlank", "descNoContent", "descLong", "keywords"}

\* The element of kind k at position j.
ElementOf(k, j) ==
    CASE k = "link" -> Anchor(TRUE, <<"/", "p", Mark(j)>>, <<"t", Mark(j)>>)
      [] k = "relative" ->
            Anchor(TRUE, <<"i", "m", "g", "/", Mark(j)>>,
                   <<" ", "a", " ", "\n", " ", Mark(j), "\t">>)
      [] k = "untitled" ->
            Anchor(TRUE, HTTPS \o <<"x", ".", "y", "/", Mark(j)>>, <<" ", "\n">>)
      [] k = "padded" ->
            Anchor(TRUE, <<Mark(j)>>, <<" ">> \o Repeat("w", 99) \o <<Mark(j), " ">>)
      [] k = "wide" ->
            Anchor(TRUE, <<"/">> \o Repeat("u", 60) \o <<Mark(j)>>, <<"w", Mark(j)>>)
      [] k = "inner" ->
            Anchor(TRUE, <<"a", "#", Mark(j)>>, <<"m", "a", "i", "l", "t", "o", ":", Mark(j)>>)
      [] k = "javascript" ->
            Anchor(TRUE, JavascriptPrefix \o <<"v", "o", "i", "d", "(", "0", ")">>,
                   <<"j", Mark(j)>>)
      [] k = "nohref" -> Anchor(FALSE, <<>>, <<"n", Mark(j)>>)
      [] k = "longtext" ->
            Anchor(TRUE, <<"/", "l", Mark(j)>>, Repeat("w", 100) \o <<Mark(j)>>)
      [] k = "hash" -> Anchor(TRUE, <<"#", "t", "o", "p">>, <<"h", Mark(j)>>)
      [] k = "mailto" ->
            Anchor(TRUE, MailtoPrefix \o <<"a", "@", "b", ".", "c">>, <<"m", Mark(j)>>)
      [] k = "desc" -> Meta(DescriptionName, TRUE, <<" ", "d", Mark(j), "\n">>)
      [] k = "descEmpty" -> Meta(DescriptionName, TRUE, <<>>)
      [] k = "descBlank" -> Meta(DescriptionName, TRUE, <<" ", "\t">>)
      [] k = "descNoContent" -> Meta(DescriptionName, FALSE, <<>>)
      [] k = "descLong" -> Meta(DescriptionName, TRUE, Repeat("d", 120) \o <<Mark(j)>>)
      [] k = "keywords" ->
            Meta(<<"k", "e", "y", "w", "o", "r", "d", "s">>, TRUE, <<"k", Mark(j)>>)
      [] k = "title" -> Plain("title", <<" ", "T", Mark(j), " ">>)
      [] OTHER -> Plain(k, <<Mark(j)>>)

Instantiate(shape) == [j \in 1..Len(shape) |-> ElementOf(shape[j], j)]

Cycle(kinds, j) == kinds[(j % Len(kinds)) + 1]

\* Documents of up to MaxAnchors elements: at every position either an anchor
\* that is listed or an element that is not.
MixedShapes ==
    UNION { { [j \in 1..n |-> IF j \in listed THEN Cycle(ListedKinds, j)
                                              ELSE Cycle(SkippedKinds, j)] :
                listed \in SUBSET (1..n) } : n \in 0..MaxAnchors }

\* Documents of up to MaxUniform plain links.
UniformShapes == { [j \in 1..n |-> "link"] : n \in 0..MaxUniform }

RECURSIVE Shapes(_, _)
Shapes(K, n) ==
    IF n = 0 THEN {<<>>}
    ELSE Shapes(K, n - 1) \cup {Append(s, k) : s \in Shapes(K, n - 1), k \in K}

Range(f) == {f[x] : x \in DOMAIN f}

\* Short documents of every kind of anchor and element, and of every kind of
\* meta element.
ShortShapes == Shapes(Range(ListedKinds) \cup Range(SkippedKinds) \cup OtherKinds, MaxShort)
MetaShapes == Shapes(MetaKinds \cup {"title"}, MaxMetas)

Documents ==
    {Instantiate(s) : s \in MixedShapes \cup UniformShapes \cup ShortShapes \cup MetaShapes}

PageURLs ==
    { HTTPS \o <<"e", "x", "a", "m", "p", "l", "e", ".", "c", "o", "m">>,
      HTTP \o <<"a", ".", "b", "/", "b", "l", "o", "g", "/", "p", "o", "s", "t", "1">> }

IsAnchor(e) == e.tag = "a"
IsTitle(e) == e.tag = "title"
IsH1(e) == e.tag = "h1"
IsH2(e) == e.tag = "h2"
IsParagraph(e) == e.tag = "p"
IsImage(e) == e.tag = "img"
IsDescriptionMeta(e) == e.tag = "meta" /\ e.name = DescriptionName

\* doc.Find(selector): the matching elements, in document order.
FindAnchors(d) == SelectSeq(d, IsAnchor)
FindDescriptions(d) == SelectSeq(d, IsDescriptionMeta)

\* Lines 454-459.
truncateText(t, maxLength) ==
    IF Len(t) <= maxLength THEN t ELSE Slice(t, 0, maxLength) \o Ellipsis

\* Lines 379-382.
TitleOf(d) ==
    IF SelectSeq(d, IsTitle) = <<>> \/ TrimSpace(SelectSeq(d, IsTitle)[1].text) = <<>>
    THEN TitlePlaceholder
    ELSE TrimSpace(SelectSeq(d, IsTitle)[1].text)

\* Mutation: every description element overwrites the value.
KeepsDescriptionNever(s, current) == s.hasContent

\* Line 387: the callback assigns only while description is still empty.
KeepsDescription(s, current) == s.hasContent /\ current = <<>>

\* Mutation: the cap lets one more link through.
CapReachedAfter(n) == n > 10

\* Line 400.
CapReached(n) == n >= 10

\* Line 407.
SkipsAnchor(s) == ~s.hasHref \/ Len(TrimSpace(s.text)) > 100

\* Mutation: a mailto: href is no longer skipped.
SkipsHrefNoMailto(h) == HasPrefix(h, HashPrefix) \/ HasPrefix(h, JavascriptPrefix)

\* Lines 411-413.
SkipsHref(h) ==
    \/ HasPrefix(h, HashPrefix)
    \/ HasPrefix(h, JavascriptPrefix)
    \/ HasPrefix(h, MailtoPrefix)

\* Lines 417-420.
LinkText(s) ==
    IF cleanLinkText(TrimSpace(s.text)) = <<>> THEN Placeholder
    ELSE cleanLinkText(TrimSpace(s.text))

\* Lines 422-427.
DisplayURL(h, b) ==
    IF Len(makeAbsoluteURL(h, b)) > 50
    THEN Slice(makeAbsoluteURL(h, b), 0, 47) \o Ellipsis
    ELSE makeAbsoluteURL(h, b)

NoStats ==
    [title |-> None, description |-> None, noLinks |-> FALSE,
     h1 |-> -1, h2 |-> -1, paragraphs |-> -1, images |-> -1, links |-> -1]

HTMLInit ==
    /\ pc = "title"
    /\ doc \in Documents
    /\ baseURL \in PageURLs
    /\ i = 0
    /\ description = <<>>
    /\ linkCount = 0
    /\ links = <<>>
    /\ stats = NoStats
    /\ contentType = None /\ called = <<>>
    /\ href = None /\ fullURL = None
    /\ text = None /\ cleaned = None
    /\ body = None /\ preview = None /\ printed = None

\* Lines 379-385.
ShowTitle ==
    /\ pc = "title"
    /\ stats' = [stats EXCEPT !.title = TitleOf(doc)]
    /\ description' = <<>>
    /\ i' = 0
    /\ pc' = "meta"
    /\ UNCHANGED <<classifyVars, called, urlVars, baseURL, cleanVars, body,
                   genericVars, jsonVars, doc, linkCount, links>>

\* Lines 386-390: one call of the callback of the description elements.
MetaEach ==
    /\ pc = "meta"
    /\ i < Len(FindDescriptions(doc))
    /\ description' =
           IF KeepsDescription(FindDescriptions(doc)[i + 1], description)
           THEN TrimSpace(FindDescriptions(doc)[i + 1].content)
           ELSE description
    /\ i' = i + 1
    /\ UNCHANGED <<pc, classifyVars, called, urlVars, baseURL, cleanVars, body,
                   genericVars, jsonVars, doc, linkCount, links, stats>>

\* Lines 391-398.
ShowDescription ==
    /\ pc = "meta"
    /\ i = Len(FindDescriptions(doc))
    /\ stats' = [stats EXCEPT !.description =
                     IF description /= <<>> THEN truncateText(description, 120) ELSE None]
    /\ linkCount' = 0
    /\ i' = 0
    /\ pc' = "links"
    /\ UNCHANGED <<classifyVars, called, urlVars, baseURL, cleanVars, body,
                   genericVars, jsonVars, doc, description, links>>

\* Lines 399-433: one call of the callback of the anchors.
AnchorEach ==
    /\ pc = "links"
    /\ i < Len(FindAnchors(doc))
    /\ LET s == FindAnchors(doc)[i + 1]
       IN  IF CapReached(linkCount) \/ SkipsAnchor(s) \/ SkipsHref(s.href)
           THEN UNCHANGED <<linkCount, links>>
           ELSE /\ links' = Append(links,
                                [num   |-> linkCount + 1,
                                 text  |-> LinkText(s),
                                 url   |-> DisplayURL(s.href, baseURL),
                                 index |-> i])
                /\ linkCount' = linkCount + 1
    /\ i' = i + 1
    /\ UNCHANGED <<pc, classifyVars, called, urlVars, baseURL, cleanVars, body,
                   genericVars, jsonVars, doc, description, stats>>

\* Lines 435-451.
ShowStatistics ==
    /\ pc = "links"
    /\ i = Len(FindAnchors(doc))
    /\ stats' = [stats EXCEPT !.noLinks = (linkCount = 0),
                              !.h1 = Len(SelectSeq(doc, IsH1)),
                              !.h2 = Len(SelectSeq(doc, IsH2)),
                              !.paragraphs = Len(SelectSeq(doc, IsParagraph)),
                              !.images = Len(SelectSeq(doc, IsImage)),
                              !.links = Len(FindAnchors(doc))]
    /\ pc' = "done"
    /\ UNCHANGED <<classifyVars, called, urlVars, baseURL, cleanVars, body,
                   genericVars, jsonVars, doc, i, description, linkCount, links>>

HTMLNext == ShowTitle \/ MetaEach \/ ShowDescription \/ AnchorEach \/ ShowStatistics

SpecHTML == HTMLInit /\ [][HTMLNext]_vars

\* An anchor that passes the skip rules: it has an href, its trimmed text is at
\* most 100 long, and its href starts with none of "#", "javascript:", "mailto:".
Listable(a) ==
    /\ a.hasHref
    /\ Len(TrimSpace(a.text)) <= 100
    /\ ~HasPrefix(a.href, <<"#">>)
    /\ ~HasPrefix(a.href, <<"j", "a", "v", "a", "s", "c", "r", "i", "p", "t", ":">>)
    /\ ~HasPrefix(a.href, <<"m", "a", "i", "l", "t", "o", ":">>)

\* The 0-based indices, among the anchors of d, of those that pass the skip rules.
ListableIndices(d) == {j \in 0..(Len(FindAnchors(d)) - 1) : Listable(FindAnchors(d)[j + 1])}

CountOf(d, t) == Cardinality({j \in 1..Len(d) : d[j].tag = t})

\* C4: exactly min(10, q) links are listed, q being the number of anchors that
\* pass the skip rules; they are the first ones in document order, numbered
\* from 1; the total reported counts every anchor of the document, and the
\* heading, paragraph and image counts are those of the whole document.
C4_LinkCap ==
    pc = "done" =>
        /\ Len(links) = Min(10, Cardinality(ListableIndices(doc)))
        /\ \A k \in 1..Len(links) :
               /\ links[k].num = k
               /\ links[k].index \in ListableIndices(doc)
               /\ Cardinality({j \in ListableIndices(doc) : j < links[k].index}) = k - 1
        /\ stats.links = CountOf(doc, "a")
        /\ stats.h1 = CountOf(doc, "h1")
        /\ stats.h2 = CountOf(doc, "h2")
        /\ stats.paragraphs = CountOf(doc, "p")
        /\ stats.images = CountOf(doc, "img")

\* A document of 20 listable anchors has been rendered: 10 listed, 20 reported.
C4_Witness ==
    /\ pc = "done"
    /\ Len(doc) = 20
    /\ Cardinality(ListableIndices(doc)) = 20
    /\ Len(links) = 10
    /\ stats.links = 20

\* The anchors the callback has been called for so far.
Visited == IF pc = "links" THEN 0..(i - 1)
           ELSE IF pc = "done" THEN 0..(Len(FindAnchors(doc)) - 1)
           ELSE {}

ListedIndices == {links[k].index : k \in 1..Len(links)}

\* C7: an anchor is listed only if it passes the skip rules (an anchor with a
\* javascript: href never is); a skipped anchor neither stops the traversal nor
\* takes a link slot: every visited anchor that passes the rules and is
\* preceded by fewer than 10 such anchors is listed.
C7_SkipRules ==
    (pc \in {"links", "done"}) =>
        LET anchors == FindAnchors(doc)
            passing == ListableIndices(doc)
        IN  /\ \A j \in ListedIndices :
                   /\ j \in Visited
                   /\ anchors[j + 1].hasHref
                   /\ Len(TrimSpace(anchors[j + 1].text)) <= 100
                   /\ ~HasPrefix(anchors[j + 1].href, <<"#">>)
                   /\ ~HasPrefix(anchors[j + 1].href,
                                 <<"j", "a", "v", "a", "s", "c", "r", "i", "p", "t", ":">>)
                   /\ ~HasPrefix(anchors[j + 1].href, <<"m", "a", "i", "l", "t", "o", ":">>)
            /\ \A j \in Visited :
                   (j \in passing /\ Cardinality({m \in passing : m < j}) < 10)
                       => j \in ListedIndices
            /\ linkCount = Len(links)
            /\ (pc = "done" => i = Len(anchors))

\* An anchor has been listed after a skipped javascript: anchor, with the
\* number the skipped one did not take.
C7_Witness ==
    /\ pc = "done"
    /\ Len(FindAnchors(doc)) >= 2
    /\ HasPrefix(FindAnchors(doc)[1].href, JavascriptPrefix)
    /\ Len(links) >= 1
    /\ links[1].index = 1
    /\ links[1].num = 1

\* C10 as stated: the description is the trimmed content of the first
\* description element, whatever that content is.
C10_FirstDescription ==
    (/\ pc \in {"links", "done"}
     /\ FindDescriptions(doc) /= <<>>
     /\ FindDescriptions(doc)[1].hasContent)
        => description = TrimSpace(FindDescriptions(doc)[1].content)

\* The description elements whose content attribute is present and not blank.
Described(d) ==
    {j \in 1..Len(FindDescriptions(d)) :
        /\ FindDescriptions(d)[j].hasContent
        /\ TrimSpace(FindDescriptions(d)[j].content) /= <<>>}

\* C10 as amended: the description is the trimmed content of the first
\* description element whose content attribute is present and not blank; no
\* later element replaces it; there is none when no element has such content.
C10_FirstNonBlankDescription ==
    (pc \in {"links", "done"}) =>
        /\ (Described(doc) = {} => description = <<>> /\ stats.description = None)
        /\ \A j \in Described(doc) :
               (\A m \in Described(doc) : j <= m) =>
                   /\ description = TrimSpace(FindDescriptions(doc)[j].content)
                   /\ stats.description =
                          IF Len(description) <= 120 THEN description
                          ELSE SubSeq(description, 1, 120) \o <<".", ".", ".">>

\* A document whose first description element is blank and whose second is not
\* has been rendered.
C10_Witness ==
    /\ pc = "done"
    /\ Len(FindDescriptions(doc)) >= 2
    /\ FindDescriptions(doc)[1].hasContent
    /\ TrimSpace(FindDescriptions(doc)[1].content) = <<>>
    /\ 2 \in Described(doc)
    /\ description = TrimSpace(FindDescriptions(doc)[2].content)

=============================================================================
